---- MODULE Spec2Model ----
(***************************************************************************)
(* Model of scripts/auto_price_compare.py: the Meruki -> Goofish price     *)
(* comparison pipeline (main), its pure helpers (parse_price,              *)
(* normalize_name, the CompareResult aggregates, the CSV row rendering)    *)
(* and the two page-scraping loops (get_meruki_result_names,               *)
(* collect_goofish_prices).                                                *)
(*                                                                         *)
(* A Python str is a sequence of one-character strings.  A float is an     *)
(* exact reduced rational <<numerator, denominator>>; binary rounding      *)
(* error is not modelled (statistics.mean itself works on exact fractions).*)
(* None is the value None below.                                           *)
(***************************************************************************)
EXTENDS Integers, Sequences, FiniteSets, TLC

VARIABLES
    pc,            \* position of the running procedure
    fnIn,          \* input of the pure function under study
    fnOut,         \* sequence of results obtained so far from that input
    cfg,           \* parsed command line: max_source_items, max_price_items
    held,          \* the persistent browser context is open
    acquired,      \* number of launch_persistent_context calls
    closes,        \* number of context.close() calls
    elements,      \* what the Meruki result locator returned (inner texts)
    source_names,  \* main's source_names (None before discovery returns)
    idx,           \* 1-based position of the for loop of main in the retained names
    results,       \* main's results list
    queries,       \* every marketplace query issued so far, in order
    csv,           \* the output file
    writes         \* number of write_csv calls that wrote the file

vars == <<pc, fnIn, fnOut, cfg, held, acquired, closes, elements,
          source_names, idx, results, queries, csv, writes>>

None == "None"

-----------------------------------------------------------------------------
(* Bounds of the model.                                                    *)

MaxPieces == 3       \* pieces concatenated into a raw name (normalize_name study)
MaxTextLen == 4      \* characters of a price text (parse_price study)
MaxRows == 3         \* price elements on a Goofish result page (collect study)
MaxPriceItems == 3   \* largest --max-price-items tried (collect study)
MaxCatalog == 4      \* title elements on the Meruki result page (pipeline)
MaxSourceItems == 2  \* largest --max-source-items tried (pipeline)
MaxRunRows == 1      \* price elements on a Goofish page (pipeline)
MaxRunPriceItems == 1 \* largest --max-price-items tried (pipeline)

-----------------------------------------------------------------------------
(* Characters and the str methods the script uses.                         *)

Digits == {"0", "1", "2", "3", "4", "5", "6", "7", "8", "9"}

LowerLetters == {"a", "b", "c", "d", "e", "f", "g", "h", "i", "j", "k", "l", "m",
                 "n", "o", "p", "q", "r", "s", "t", "u", "v", "w", "x", "y", "z"}

UpperLetters == {"A", "B", "C", "D", "E", "F", "G", "H", "I", "J", "K", "L", "M",
                 "N", "O", "P", "Q", "R", "S", "T", "U", "V", "W", "X", "Y", "Z"}

\* \s of the re module, restricted to the whitespace the model uses
Whitespace == {" ", "\t"}

\* \w of the re module: letters, digits and the underscore
IsWordChar(c) == c \in LowerLetters \cup UpperLetters \cup Digits \cup {"_"}

\* case folding of the (?i) flag, on the letters of the brand token
Lower(c) ==
    CASE c = "S" -> "s" [] c = "P" -> "p" [] c = "A" -> "a"
      [] c = "R" -> "r" [] c = "K" -> "k" [] OTHER -> c

\* s[i:] starts with pat
StartsWithAt(s, i, pat) ==
    /\ i + Len(pat) - 1 <= Len(s)
    /\ \A k \in 1..Len(pat) : s[i + k - 1] = pat[k]

RECURSIVE LStripChars(_, _)
LStripChars(s, chars) ==
    IF s # <<>> /\ Head(s) \in chars THEN LStripChars(Tail(s), chars) ELSE s

RECURSIVE RStripChars(_, _)
RStripChars(s, chars) ==
    IF s # <<>> /\ s[Len(s)] \in chars
    THEN RStripChars(SubSeq(s, 1, Len(s) - 1), chars) ELSE s

\* str.strip(chars)
StripChars(s, chars) == RStripChars(LStripChars(s, chars), chars)

\* str.strip()
Strip(s) == StripChars(s, Whitespace)

\* str.replace(pat, ""): leftmost non-overlapping occurrences, one pass
RECURSIVE RemoveAllFrom(_, _, _)
RemoveAllFrom(s, i, pat) ==
    IF i > Len(s) THEN <<>>
    ELSE IF StartsWithAt(s, i, pat) THEN RemoveAllFrom(s, i + Len(pat), pat)
    ELSE <<s[i]>> \o RemoveAllFrom(s, i + 1, pat)

RemoveAll(s, pat) == RemoveAllFrom(s, 1, pat)

\* re.sub(r"\s+", " ", s)
RECURSIVE CollapseWsFrom(_, _)
CollapseWsFrom(s, i) ==
    IF i > Len(s) THEN <<>>
    ELSE IF s[i] \in Whitespace
         THEN IF i > 1 /\ s[i - 1] \in Whitespace
              THEN CollapseWsFrom(s, i + 1)
              ELSE <<" ">> \o CollapseWsFrom(s, i + 1)
    ELSE <<s[i]>> \o CollapseWsFrom(s, i + 1)

CollapseWs(s) == CollapseWsFrom(s, 1)

-----------------------------------------------------------------------------
(* normalize_name                                                          *)

BrandWord == <<"s", "p", "a", "r", "k">>

\* (?i)\bspark\b matches at position i of s
BrandAt(s, i) ==
    /\ i + Len(BrandWord) - 1 <= Len(s)
    /\ \A k \in 1..Len(BrandWord) : Lower(s[i + k - 1]) = BrandWord[k]
    /\ (i = 1 \/ ~IsWordChar(s[i - 1]))
    /\ (i + Len(BrandWord) > Len(s) \/ ~IsWordChar(s[i + Len(BrandWord)]))

\* re.sub(r"(?i)\bspark\b", "", s): the scan goes on after each match, and the
\* word boundaries are those of the string being scanned
RECURSIVE RemoveBrandFrom(_, _)
RemoveBrandFrom(s, i) ==
    IF i > Len(s) THEN <<>>
    ELSE IF BrandAt(s, i) THEN RemoveBrandFrom(s, i + Len(BrandWord))
    ELSE <<s[i]>> \o RemoveBrandFrom(s, i + 1)

RemoveBrand(s) == RemoveBrandFrom(s, 1)

Scale143Colon == <<"1", ":", "4", "3">>
Scale143Slash == <<"1", "/", "4", "3">>

\* the defaults of normalize_name's parameters
prefix_brand == <<"s", "p", "a", "r", "k">>
scale == <<"1", "/", "4", "3">>

\* f"{prefix_brand} {scale} {text}"
FormatName(text) == prefix_brand \o <<" ">> \o scale \o <<" ">> \o text

\* the text that remains of the raw name (the four statements before the return)
NameRest(raw_name) ==
    LET t1 == Strip(CollapseWs(raw_name))
        t2 == RemoveBrand(t1)
        t3 == RemoveAll(RemoveAll(t2, Scale143Colon), Scale143Slash)
    IN  StripChars(CollapseWs(t3), {" ", "-", "_"})

\* a normalize_name whose return statement lacks the final .strip()
normalize_name_nostrip(raw_name) == FormatName(NameRest(raw_name))

normalize_name(raw_name) == Strip(FormatName(NameRest(raw_name)))

\* Raw names tried: concatenations of at most MaxPieces of these pieces.
NamePieces ==
    { <<"s", "p", "a", "r", "k">>, <<"S", "p", "a">>, <<"r", "k">>,
      <<"1", "/", "4", "3">>, <<"1", ":", "4", "3">>, <<"1", ":">>, <<"1", "/">>,
      <<"4", "3">>, <<" ">>, <<"\t">>, <<"-">>, <<"_">>, <<"x">> }

RECURSIVE Concats(_)
Concats(n) ==
    IF n = 0 THEN {<<>>}
    ELSE LET shorter == Concats(n - 1)
         IN  shorter \cup {p \o s : p \in NamePieces, s \in shorter}

RawNames == Concats(MaxPieces)

-----------------------------------------------------------------------------
(* Floats as exact rationals <<numerator, denominator>> in lowest terms.   *)

RECURSIVE GCD(_, _)
GCD(a, b) == IF b = 0 THEN a ELSE GCD(b, a % b)

Rat(n, d) == LET g == GCD(n, d) IN <<n \div g, d \div g>>

RatLeq(a, b) == a[1] * b[2] <= b[1] * a[2]

RatAdd(a, b) == Rat(a[1] * b[2] + b[1] * a[2], a[2] * b[2])

RECURSIVE Pow10(_)
Pow10(n) == IF n = 0 THEN 1 ELSE 10 * Pow10(n - 1)

DigitValue(c) ==
    CASE c = "0" -> 0 [] c = "1" -> 1 [] c = "2" -> 2 [] c = "3" -> 3
      [] c = "4" -> 4 [] c = "5" -> 5 [] c = "6" -> 6 [] c = "7" -> 7
      [] c = "8" -> 8 [] c = "9" -> 9

\* int() of a string of digits
RECURSIVE DigitsValue(_)
DigitsValue(ds) ==
    IF ds = <<>> THEN 0
    ELSE 10 * DigitsValue(SubSeq(ds, 1, Len(ds) - 1)) + DigitValue(ds[Len(ds)])

\* float(m.group(1)) on a text of the shape [0-9]+(\.[0-9]+)?
ToFloat(num) ==
    LET dots == {i \in 1..Len(num) : num[i] = "."}
    IN  IF dots = {} THEN Rat(DigitsValue(num), 1)
        ELSE LET d == CHOOSE i \in dots : TRUE
                 whole == SubSeq(num, 1, d - 1)
                 frac == SubSeq(num, d + 1, Len(num))
             IN  Rat(DigitsValue(whole \o frac), Pow10(Len(frac)))

-----------------------------------------------------------------------------
(* parse_price                                                             *)

\* the two currency markers of PRICE_RE: U+00A5 and the full-width U+FFE5
Yen == "<yen>"
FullwidthYen == "<fullwidth yen>"
YenMarkers == {Yen, FullwidthYen}

\* end of the longest run of digits of s that starts at position i (i - 1 if none)
RECURSIVE DigitRunEnd(_, _)
DigitRunEnd(s, i) ==
    IF i <= Len(s) /\ s[i] \in Digits THEN DigitRunEnd(s, i + 1) ELSE i - 1

\* \s* : the position after the whitespace that starts at position i
RECURSIVE SkipWs(_, _)
SkipWs(s, i) ==
    IF i <= Len(s) /\ s[i] \in Whitespace THEN SkipWs(s, i + 1) ELSE i

\* \s*([0-9]+(?:\.[0-9]+)?) tried at position j: group 1, or None
MatchNumberAt(s, j) ==
    LET k == SkipWs(s, j)
        e == DigitRunEnd(s, k)
    IN  IF e < k THEN None
        ELSE LET f == IF e + 1 <= Len(s) /\ s[e + 1] = "."
                      THEN DigitRunEnd(s, e + 2) ELSE e
             IN  IF f >= e + 2 THEN SubSeq(s, k, f) ELSE SubSeq(s, k, e)

\* PRICE_RE tried at position i: the optional marker is taken first, given up
\* when the rest does not match after it
MatchAt(s, i) ==
    IF i <= Len(s) /\ s[i] \in YenMarkers /\ MatchNumberAt(s, i + 1) # None
    THEN MatchNumberAt(s, i + 1)
    ELSE MatchNumberAt(s, i)

\* PRICE_RE.search(s): group 1 of the leftmost match, or None
RECURSIVE SearchFrom(_, _)
SearchFrom(s, i) ==
    IF i > Len(s) + 1 THEN None
    ELSE IF MatchAt(s, i) # None THEN MatchAt(s, i)
    ELSE SearchFrom(s, i + 1)

\* text.replace(",", "")
StripCommas(text) == RemoveAll(text, <<",">>)

\* a parse_price that searches the text as given, commas included
parse_price_keep_commas(text) ==
    LET m == SearchFrom(text, 1)
    IN  IF m = None THEN None ELSE ToFloat(m)

parse_price(text) ==
    LET m == SearchFrom(StripCommas(text), 1)
    IN  IF m = None THEN None ELSE ToFloat(m)

\* Price texts tried: every text of at most MaxTextLen of these characters.
PriceChars == {Yen, FullwidthYen, " ", ",", ".", "0", "1", "a"}

RECURSIVE TextsUpTo(_)
TextsUpTo(n) ==
    IF n = 0 THEN {<<>>}
    ELSE LET shorter == TextsUpTo(n - 1)
         IN  shorter \cup {<<c>> \o s : c \in PriceChars, s \in shorter}

PriceTexts == TextsUpTo(MaxTextLen)

-----------------------------------------------------------------------------
(* collect_goofish_prices: the loop over the price elements of the page.   *)

Min(a, b) == IF a <= b THEN a ELSE b

\* the loop body for rows[i..row_count], appending to the list built so far
RECURSIVE CollectFrom(_, _, _)
CollectFrom(rows, i, row_count) ==
    IF i > row_count THEN <<>>
    ELSE LET parsed == parse_price(rows[i])
         IN  IF parsed # None
             THEN <<parsed>> \o CollectFrom(rows, i + 1, row_count)
             ELSE CollectFrom(rows, i + 1, row_count)

\* a collect_goofish_prices that reads every row, whatever max_items is
collect_goofish_prices_uncapped(rows, max_items) ==
    CollectFrom(rows, 1, Len(rows))

\* rows: the inner texts of the elements the price locator matches, in page order
collect_goofish_prices(rows, max_items) ==
    CollectFrom(rows, 1, Min(Len(rows), max_items))

-----------------------------------------------------------------------------
(* CompareResult and write_csv                                             *)

CompareResult(source, normalized, prices) ==
    [source_name |-> source, normalized_name |-> normalized, prices |-> prices]

RECURSIVE MinOf(_)
MinOf(ps) ==
    IF Len(ps) = 1 THEN ps[1]
    ELSE LET m == MinOf(Tail(ps))
         IN  IF RatLeq(ps[1], m) THEN ps[1] ELSE m

RECURSIVE SumOf(_)
SumOf(ps) == IF ps = <<>> THEN <<0, 1>> ELSE RatAdd(ps[1], SumOf(Tail(ps)))

\* a min_price that takes the first price for the least one
min_price_first(r) == IF r.prices # <<>> THEN r.prices[1] ELSE None

\* CompareResult.min_price
min_price(r) == IF r.prices # <<>> THEN MinOf(r.prices) ELSE None

\* CompareResult.avg_price (statistics.mean)
avg_price(r) ==
    IF r.prices # <<>>
    THEN LET total == SumOf(r.prices)
         IN  Rat(total[1], total[2] * Len(r.prices))
    ELSE None

DigitChar(d) == <<"0", "1", "2", "3", "4", "5", "6", "7", "8", "9">>[d + 1]

\* str() of a natural number
RECURSIVE DigitsOf(_)
DigitsOf(n) ==
    IF n < 10 THEN <<DigitChar(n)>> ELSE DigitsOf(n \div 10) \o <<DigitChar(n % 10)>>

\* a number of hundredths written with two decimals
CentsText(c) ==
    DigitsOf(c \div 100) \o <<".">> \o <<DigitChar((c % 100) \div 10), DigitChar(c % 10)>>

\* f"{q:.2f}": the nearest number of hundredths.  A float that lies exactly
\* half way (its denominator is a power of two) goes to the even neighbour; a
\* decimal half-way case is no float, and goes where its binary neighbour lies:
\* both neighbours are possible renderings.
Format2f(q) ==
    LET scaled == q[1] * 100
        down == scaled \div q[2]
        rem2 == 2 * (scaled % q[2])
    IN  IF rem2 < q[2] THEN {CentsText(down)}
        ELSE IF rem2 > q[2] THEN {CentsText(down + 1)}
        ELSE IF q[2] = 8
             THEN {CentsText(IF down % 2 = 0 THEN down ELSE down + 1)}
             ELSE {CentsText(down), CentsText(down + 1)}

\* "|".join(parts)
RECURSIVE JoinBar(_)
JoinBar(parts) ==
    IF parts = <<>> THEN <<>>
    ELSE IF Len(parts) = 1 THEN parts[1]
    ELSE parts[1] \o <<"|">> \o JoinBar(Tail(parts))

\* the possible lists of renderings of the prices, one per price
RECURSIVE PriceTextLists(_)
PriceTextLists(ps) ==
    IF ps = <<>> THEN {<<>>}
    ELSE {<<t>> \o rest : t \in Format2f(ps[1]), rest \in PriceTextLists(Tail(ps))}

\* the row write_csv writes for a record (a set: see Format2f)
CsvRows(r) ==
    LET mins == IF min_price(r) # None THEN Format2f(min_price(r)) ELSE {<<>>}
        avgs == IF avg_price(r) # None THEN Format2f(avg_price(r)) ELSE {<<>>}
    IN  {[source_name |-> r.source_name, normalized_name |-> r.normalized_name,
          min_price |-> m, avg_price |-> a, prices |-> JoinBar(ps)] :
            m \in mins, a \in avgs, ps \in PriceTextLists(r.prices)}

\* Inner texts of price elements tried in the study of the collection loop.
RowTexts ==
    { <<Yen, "1", "0", "0", " ", "g", "o", "o", "d">>, <<"j", "u", "n", "k">>,
      <<Yen, "2", "0", "0">>, <<"0">>, <<"0", ".", "1", "2", "5">>, <<"3", ",", "0">> }

RECURSIVE SeqsUpTo(_, _)
SeqsUpTo(S, n) ==
    IF n = 0 THEN {<<>>}
    ELSE LET shorter == SeqsUpTo(S, n - 1)
         IN  shorter \cup {<<x>> \o s : x \in S, s \in shorter}

ExampleSource == <<"S", "p", "a", "r", "k", " ", "1", "/", "4", "3", " ", "X">>

-----------------------------------------------------------------------------
(* get_meruki_result_names: the loop over the title elements of the page.  *)

\* the loop: inner_text().strip() of each element, the empty ones left out
RECURSIVE StrippedNames(_)
StrippedNames(els) ==
    IF els = <<>> THEN <<>>
    ELSE LET text == Strip(Head(els))
         IN  IF text # <<>> THEN <<text>> \o StrippedNames(Tail(els))
             ELSE StrippedNames(Tail(els))

InSeq(x, s) == \E i \in 1..Len(s) : s[i] = x

\* list(dict.fromkeys(names)): each key at the place of its first occurrence
RECURSIVE FromKeys(_, _)
FromKeys(names, seen) ==
    IF names = <<>> THEN seen
    ELSE IF InSeq(Head(names), seen) THEN FromKeys(Tail(names), seen)
    ELSE FromKeys(Tail(names), Append(seen, Head(names)))

\* a get_meruki_result_names that returns names without deduplicating
get_meruki_result_names_dups(els) == StrippedNames(els)

\* els: the inner texts of the elements the result locator matches, in page order
get_meruki_result_names(els) == FromKeys(StrippedNames(els), <<>>)

-----------------------------------------------------------------------------
(* main                                                                    *)

\* the default of --query
DefaultQuery == <<"s", "p", "a", "r", "k", " ", "1", "/", "4", "3">>

\* Inner texts of title elements the Meruki page may show.
CatalogTexts ==
    { <<"A">>, <<" ", "A", " ">>, <<"S", "p", "a", "r", "k", " ", "B">>, <<" ">> }

\* Inner texts of price elements the Goofish page may show.
RunRowTexts == { <<Yen, "1", "0">>, <<"j", "u", "n", "k">> }

CsvHeader == <<"source_name", "normalized_name", "min_price", "avg_price", "prices">>

\* the output file: absent until write_csv opens it
NoFile == [exists |-> FALSE, header |-> <<>>, rows |-> <<>>]

CsvFile(rows) == [exists |-> TRUE, header |-> CsvHeader, rows |-> rows]

Init ==
    /\ pc = "start"
    /\ fnIn = <<>>
    /\ fnOut = <<>>
    /\ cfg \in [max_source_items : 0..MaxSourceItems,
                max_price_items : 0..MaxRunPriceItems]
    /\ held = FALSE
    /\ acquired = 0
    /\ closes = 0
    /\ elements = None
    /\ source_names = None
    /\ idx = 0
    /\ results = <<>>
    /\ queries = <<>>
    /\ csv = NoFile
    /\ writes = 0

\* a check that never finds the name list empty
NoNamesCaptured_never(names) == FALSE

\* "if not source_names"
NoNamesCaptured(names) == names = <<>>

\* a loop that stays on the item it has just dealt with
NextItem_same(i) == i

\* the for loop of main moving to the item after item i
NextItem(i) == i + 1

\* source_names[: args.max_source_items]
Retained == SubSeq(source_names, 1, Min(Len(source_names), cfg.max_source_items))

SetLastStatus(st) == [queries EXCEPT ![Len(queries)].status = st]

\* p.chromium.launch_persistent_context(...), context.new_page()
Launch ==
    /\ pc = "start"
    /\ held' = TRUE
    /\ acquired' = acquired + 1
    /\ pc' = "discover"
    /\ UNCHANGED <<fnIn, fnOut, cfg, closes, elements, source_names, idx,
                   results, queries, csv, writes>>

\* get_meruki_result_names is called: the Meruki search is submitted
StartDiscovery ==
    /\ pc = "discover"
    /\ queries' = Append(queries, [site |-> "meruki", item |-> 0,
                                   key |-> DefaultQuery, status |-> "inflight"])
    /\ pc' = "discovering"
    /\ UNCHANGED <<fnIn, fnOut, cfg, held, acquired, closes, elements,
                   source_names, idx, results, csv, writes>>

\* get_meruki_result_names returns; main checks the names it got
DiscoveryReturns ==
    /\ pc = "discovering"
    /\ \E els \in SeqsUpTo(CatalogTexts, MaxCatalog) :
           LET names == get_meruki_result_names(els)
           IN  /\ elements' = els
               /\ source_names' = names
               /\ IF NoNamesCaptured(names)
                  THEN \* context.close(); raise RuntimeError
                       /\ held' = FALSE
                       /\ closes' = closes + 1
                       /\ idx' = idx
                       /\ pc' = "fatal"
                  ELSE /\ idx' = 1
                       /\ pc' = "loop"
                       /\ UNCHANGED <<held, closes>>
    /\ queries' = SetLastStatus("ok")
    /\ UNCHANGED <<fnIn, fnOut, cfg, acquired, results, csv, writes>>

\* get_meruki_result_names raises TimeoutError: context.close(); raise RuntimeError
DiscoveryTimeout ==
    /\ pc = "discovering"
    /\ queries' = SetLastStatus("timeout")
    /\ held' = FALSE
    /\ closes' = closes + 1
    /\ pc' = "fatal"
    /\ UNCHANGED <<fnIn, fnOut, cfg, acquired, elements, source_names, idx,
                   results, csv, writes>>

\* get_meruki_result_names raises an exception that is no TimeoutError (a
\* navigation error of page.goto, say): no except clause takes it, it leaves main
DiscoveryError ==
    /\ pc = "discovering"
    /\ queries' = SetLastStatus("error")
    /\ pc' = "crashed"
    /\ UNCHANGED <<fnIn, fnOut, cfg, held, acquired, closes, elements,
                   source_names, idx, results, csv, writes>>

\* the loop takes the next retained name, normalizes it and calls
\* collect_goofish_prices: the Goofish search is submitted
StartResale ==
    /\ pc = "loop"
    /\ idx <= Len(Retained)
    /\ queries' = Append(queries, [site |-> "goofish", item |-> idx,
                                   key |-> normalize_name(Retained[idx]),
                                   status |-> "inflight"])
    /\ pc' = "querying"
    /\ UNCHANGED <<fnIn, fnOut, cfg, held, acquired, closes, elements,
                   source_names, idx, results, csv, writes>>

\* collect_goofish_prices returns the prices read from the page
ResaleReturns ==
    /\ pc = "querying"
    /\ \E rows \in SeqsUpTo(RunRowTexts, MaxRunRows) :
           results' = Append(results,
               CompareResult(Retained[idx], normalize_name(Retained[idx]),
                             collect_goofish_prices(rows, cfg.max_price_items)))
    /\ queries' = SetLastStatus("ok")
    /\ idx' = NextItem(idx)
    /\ pc' = "loop"
    /\ UNCHANGED <<fnIn, fnOut, cfg, held, acquired, closes, elements,
                   source_names, csv, writes>>

\* collect_goofish_prices raises TimeoutError: prices = []
ResaleTimeout ==
    /\ pc = "querying"
    /\ results' = Append(results,
           CompareResult(Retained[idx], normalize_name(Retained[idx]), <<>>))
    /\ queries' = SetLastStatus("timeout")
    /\ idx' = NextItem(idx)
    /\ pc' = "loop"
    /\ UNCHANGED <<fnIn, fnOut, cfg, held, acquired, closes, elements,
                   source_names, csv, writes>>

\* collect_goofish_prices raises an exception that is no TimeoutError (the site
\* cannot be reached, say): "except TimeoutError" lets it through, it leaves main
ResaleError ==
    /\ pc = "querying"
    /\ queries' = SetLastStatus("error")
    /\ pc' = "crashed"
    /\ UNCHANGED <<fnIn, fnOut, cfg, held, acquired, closes, elements,
                   source_names, idx, results, csv, writes>>

\* the possible lists of rows of the records (see Format2f)
RECURSIVE RowLists(_)
RowLists(rs) ==
    IF rs = <<>> THEN {<<>>}
    ELSE {<<r>> \o rest : r \in CsvRows(rs[1]), rest \in RowLists(Tail(rs))}

\* the loop is over: write_csv(results, output_path), then context.close()
WriteCsv ==
    /\ pc = "loop"
    /\ idx > Len(Retained)
    /\ \E rows \in RowLists(results) : csv' = CsvFile(rows)
    /\ writes' = writes + 1
    /\ held' = FALSE
    /\ closes' = closes + 1
    /\ pc' = "done"
    /\ UNCHANGED <<fnIn, fnOut, cfg, acquired, elements, source_names, idx,
                   results, queries>>

\* write_csv raises (the output directory cannot be created, the file cannot be
\* opened): the exception leaves main before the context.close() below it
WriteCsvFails ==
    /\ pc = "loop"
    /\ idx > Len(Retained)
    /\ pc' = "crashed"
    /\ UNCHANGED <<fnIn, fnOut, cfg, held, acquired, closes, elements,
                   source_names, idx, results, queries, csv, writes>>

Next ==
    \/ Launch
    \/ StartDiscovery
    \/ DiscoveryReturns
    \/ DiscoveryTimeout
    \/ DiscoveryError
    \/ StartResale
    \/ ResaleReturns
    \/ ResaleTimeout
    \/ ResaleError
    \/ WriteCsv
    \/ WriteCsvFails

Spec == Init /\ [][Next]_vars

Terminated == pc \in {"done", "fatal", "crashed"}

-----------------------------------------------------------------------------
(* Properties of main.                                                     *)

\* C1: the browser context is acquired once and, on every path by which the
\* run ends (completion, the two fatal discovery paths, any other abort), it
\* has been released by exactly one context.close().
C1_ReleasedOnEveryExit ==
    Terminated => (acquired = 1 /\ ~held /\ closes = 1)

\* The part of C1 the code does guarantee: the paths main handles itself
\* (completion, discovery timeout, no names) end with the context closed once,
\* and it is never closed twice.
C1_HandledExitsRelease ==
    /\ closes <= 1
    /\ pc \in {"done", "fatal"} => (acquired = 1 /\ ~held /\ closes = 1)

ResaleQueries == {i \in 1..Len(queries) : queries[i].site = "goofish"}

HasEmptyRecord(item) ==
    /\ Len(results) >= item
    /\ results[item].source_name = Retained[item]
    /\ results[item].prices = <<>>

\* C2: every retained item whose resale query failed (a timeout, or another
\* failure of the query) has a record with empty prices, and the batch goes on.
C2_ItemFailureIsLocal ==
    \A i \in ResaleQueries :
        queries[i].status \in {"timeout", "error"} =>
            /\ HasEmptyRecord(queries[i].item)
            /\ pc # "crashed"

\* The part of C2 the code does guarantee: a resale query that timed out left a
\* record with empty prices, and the loop went on to the next item.
C2_TimeoutIsLocal ==
    \A i \in ResaleQueries :
        queries[i].status = "timeout" =>
            /\ HasEmptyRecord(queries[i].item)
            /\ idx > queries[i].item

DiscoveryFailed ==
    /\ queries # <<>>
    /\ \/ queries[1].status \in {"timeout", "error"}
       \/ queries[1].status = "ok" /\ StrippedNames(elements) = <<>>

\* C3: when the discovery query times out or errors, or returns no name once
\* the fragments are trimmed and the empty ones dropped, the run has halted: no
\* resale query is issued and no output file is written.
C3_DiscoveryFailureIsFatal ==
    DiscoveryFailed =>
        /\ pc \in {"fatal", "crashed"}
        /\ Len(queries) = 1
        /\ results = <<>>
        /\ writes = 0
        /\ ~csv.exists

\* C3 witness: discovery returned fragments, all of them blank, and the run
\* halted on the fatal path.
C3_Witness ==
    /\ pc = "fatal"
    /\ queries[1].status = "ok"
    /\ elements # <<>>
    /\ \A i \in 1..Len(elements) : Strip(elements[i]) = <<>>
    /\ writes = 0

\* the names discovery saw: its fragments trimmed, the empty ones left out
SeenNames == {Strip(elements[i]) : i \in 1..Len(elements)} \ {<<>>}

FirstSeenAt(name) ==
    CHOOSE i \in 1..Len(elements) :
        Strip(elements[i]) = name /\ \A j \in 1..(i - 1) : Strip(elements[j]) # name

\* names is the list of the first n distinct names seen, in order of first occurrence
IsFirstDistinct(names, n) ==
    /\ Len(names) = Min(n, Cardinality(SeenNames))
    /\ \A i \in 1..Len(names) : names[i] \in SeenNames
    /\ \A i, j \in 1..Len(names) : i < j => FirstSeenAt(names[i]) < FirstSeenAt(names[j])
    /\ \A x \in SeenNames :
           (\A i \in 1..Len(names) : names[i] # x) =>
               \A i \in 1..Len(names) : FirstSeenAt(names[i]) < FirstSeenAt(x)

SourceNamesOf(rs) == [i \in 1..Len(rs) |-> rs[i].source_name]

\* C4: the source names of the records are the discovered fragments trimmed,
\* the empty ones dropped, deduplicated keeping first occurrences, cut to the
\* first max_source_items: one record per retained name, in order, no name
\* twice.  (While the loop runs, the records made so far are the first ones.)
C4_OneRecordPerRetainedName ==
    /\ pc \in {"loop", "querying"} =>
           IsFirstDistinct(SourceNamesOf(results), Len(results))
    /\ pc = "done" =>
           /\ IsFirstDistinct(SourceNamesOf(results), cfg.max_source_items)
           /\ SourceNamesOf(csv.rows) = SourceNamesOf(results)
           /\ \A i \in 1..Len(results) :
                  results[i].normalized_name = normalize_name(results[i].source_name)

\* C4 witness: a name seen twice (once with blanks around it) and another name
\* between gave two records, in order of first occurrence.
C4_Witness ==
    /\ pc = "done"
    /\ elements = << <<"A">>, <<"S", "p", "a", "r", "k", " ", "B">>, <<" ", "A", " ">> >>
    /\ cfg.max_source_items = 2
    /\ SourceNamesOf(results) = << <<"A">>, <<"S", "p", "a", "r", "k", " ", "B">> >>

Finished(q) == q.status \in {"ok", "timeout", "error"}

\* C9: the queries are sequential and never retried: the discovery query is the
\* first and only Meruki query and is over before any resale query; the k-th
\* resale query is for the k-th retained item and starts only when the one
\* before it is over; the table is written at most once, and only after one
\* finished resale query per retained item; a completed run wrote it once.
C9_SequentialNoRetry ==
    /\ pc \notin {"start", "discover"} => queries # <<>>
    /\ queries # <<>> => queries[1].site = "meruki"
    /\ \A i \in 2..Len(queries) :
           /\ queries[i].site = "goofish"
           /\ queries[i].item = i - 1
           /\ queries[i].item <= Len(Retained)
           /\ queries[i].key = normalize_name(Retained[i - 1])
           /\ queries[1].status = "ok"
    /\ \A i \in 1..(Len(queries) - 1) : Finished(queries[i])
    /\ writes <= 1
    /\ csv.exists <=> (writes = 1)
    /\ writes = 1 =>
           /\ Len(queries) = 1 + Len(Retained)
           /\ \A i \in 1..Len(queries) : queries[i].status \in {"ok", "timeout"}
           /\ Len(csv.rows) = Len(Retained)
    /\ pc = "done" => writes = 1

\* C9 witness: a run that queried two retained items in turn, the first of
\* which timed out, and then wrote the table.
C9_Witness ==
    /\ pc = "done"
    /\ Len(queries) = 3
    /\ queries[2].status = "timeout"
    /\ queries[3].status = "ok"
    /\ writes = 1

-----------------------------------------------------------------------------
(* Study of normalize_name: the function applied to a raw name, then to    *)
(* its own result.                                                         *)

Idle ==
    /\ cfg = None /\ held = FALSE /\ acquired = 0 /\ closes = 0
    /\ elements = None /\ source_names = None /\ idx = 0 /\ results = <<>>
    /\ queries = <<>> /\ csv = NoFile /\ writes = 0

mainVars == <<cfg, held, acquired, closes, elements, source_names, idx,
              results, queries, csv, writes>>

InitNorm ==
    /\ pc = "normalize"
    /\ fnIn \in RawNames
    /\ fnOut = <<>>
    /\ Idle

Normalize ==
    /\ pc = "normalize"
    /\ fnOut' = <<normalize_name(fnIn)>>
    /\ pc' = "renormalize"
    /\ UNCHANGED <<fnIn, mainVars>>

Renormalize ==
    /\ pc = "renormalize"
    /\ fnOut' = Append(fnOut, normalize_name(fnOut[1]))
    /\ pc' = "normalized"
    /\ UNCHANGED <<fnIn, mainVars>>

NextNorm == Normalize \/ Renormalize

SpecNorm == InitNorm /\ [][NextNorm]_vars

\* C6: normalize_name is idempotent with the default brand and scale:
\* normalizing a normalized name gives the same name again.
C6_Idempotent ==
    pc = "normalized" => fnOut[2] = fnOut[1]

HasEdgeWhitespace(s) ==
    s # <<>> /\ (s[1] \in Whitespace \/ s[Len(s)] \in Whitespace)

\* C10: with the default brand and scale, the result of normalize_name has no
\* leading or trailing whitespace and starts with "spark 1/43"; when nothing
\* remains of the raw name it is exactly "spark 1/43"; it is never empty.
C10_NormalizedShape ==
    \A i \in 1..Len(fnOut) :
        LET input == IF i = 1 THEN fnIn ELSE fnOut[i - 1]
            out == fnOut[i]
            head == <<"s", "p", "a", "r", "k", " ", "1", "/", "4", "3">>
        IN  /\ out # <<>>
            /\ ~HasEdgeWhitespace(out)
            /\ Len(out) >= Len(head) /\ SubSeq(out, 1, Len(head)) = head
            /\ (NameRest(input) = <<>> => out = head)
            /\ (Len(out) > Len(head) => out[Len(head) + 1] = " ")

\* C10 witness: a raw name made of brand and scale tokens only ("Spa" "rk" " "
\* "1:43" and the like) has been normalized to exactly "spark 1/43".
C10_Witness ==
    /\ pc = "renormalize"
    /\ fnIn # <<>>
    /\ NameRest(fnIn) = <<>>
    /\ fnOut[1] = <<"s", "p", "a", "r", "k", " ", "1", "/", "4", "3">>

-----------------------------------------------------------------------------
(* Study of parse_price: the function applied to a price text.             *)

InitParse ==
    /\ pc = "parse"
    /\ fnIn \in PriceTexts
    /\ fnOut = <<>>
    /\ Idle

Parse ==
    /\ pc = "parse"
    /\ fnOut' = <<parse_price(fnIn)>>
    /\ pc' = "parsed"
    /\ UNCHANGED <<fnIn, mainVars>>

NextParse == Parse

SpecParse == InitParse /\ [][NextParse]_vars

\* the text with its commas left out, by position
WithoutCommas(text) ==
    LET keep == {i \in 1..Len(text) : text[i] # ","}
        nth(n) == CHOOSE i \in keep : Cardinality({j \in keep : j < i}) = n - 1
    IN  [n \in 1..Cardinality(keep) |-> text[nth(n)]]

\* the first decimal number of t: from its first digit, the longest run of
\* digits, then a point and the longest run of digits after it if there is one
FirstNumber(t) ==
    LET a == CHOOSE i \in 1..Len(t) : t[i] \in Digits /\ \A j \in 1..(i - 1) : t[j] \notin Digits
        allDigits(x, y) == \A j \in x..y : t[j] \in Digits
        b == CHOOSE i \in a..Len(t) :
                 allDigits(a, i) /\ (i = Len(t) \/ t[i + 1] \notin Digits)
        hasFrac == b + 2 <= Len(t) /\ t[b + 1] = "." /\ t[b + 2] \in Digits
        c == IF hasFrac
             THEN CHOOSE i \in (b + 2)..Len(t) :
                      allDigits(b + 2, i) /\ (i = Len(t) \/ t[i + 1] \notin Digits)
             ELSE b
    IN  SubSeq(t, a, c)

\* value of a decimal numeral: sum of digit * 10^place
NumeralValue(num) ==
    LET dot == IF \E i \in 1..Len(num) : num[i] = "."
               THEN CHOOSE i \in 1..Len(num) : num[i] = "." ELSE Len(num) + 1
        fracLen == IF dot > Len(num) THEN 0 ELSE Len(num) - dot
        ds == SelectSeq(num, LAMBDA ch : ch # ".")
        RECURSIVE Sum(_)
        Sum(i) == IF i > Len(ds) THEN 0
                  ELSE DigitValue(ds[i]) * Pow10(Len(ds) - i) + Sum(i + 1)
    IN  <<Sum(1), Pow10(fracLen)>>

SameNumber(q, r) == q[1] * r[2] = r[1] * q[2]

\* C7: parse_price returns None exactly when the text without its commas has
\* no decimal digit; otherwise it returns the value of the first decimal
\* number of the comma-stripped text, with or without a yen marker before it.
C7_ParsePrice ==
    pc = "parsed" =>
        LET t == WithoutCommas(fnIn)
            r == fnOut[1]
        IN  IF \A i \in 1..Len(t) : t[i] \notin Digits
            THEN r = None
            ELSE r # None /\ SameNumber(r, NumeralValue(FirstNumber(t)))

\* C7 witness: a text with a marker and a thousands separator has been parsed
\* to the number spelled by the digits around the comma.
C7_Witness ==
    /\ pc = "parsed"
    /\ fnIn = <<Yen, "1", ",", "0">>
    /\ fnOut[1] = <<10, 1>>

-----------------------------------------------------------------------------
(* Study of the collection loop and of the aggregates: the prices of one   *)
(* item collected from a page, then its record rendered as a CSV row.      *)

InitCollect ==
    /\ pc = "collect"
    /\ fnIn \in [rows : SeqsUpTo(RowTexts, MaxRows), max_items : 0..MaxPriceItems]
    /\ fnOut = <<>>
    /\ Idle

Collect ==
    /\ pc = "collect"
    /\ fnOut' = <<CompareResult(ExampleSource, normalize_name(ExampleSource),
                                collect_goofish_prices(fnIn.rows, fnIn.max_items))>>
    /\ pc' = "row"
    /\ UNCHANGED <<fnIn, mainVars>>

WriteRow ==
    /\ pc = "row"
    /\ \E row \in CsvRows(fnOut[1]) : fnOut' = Append(fnOut, row)
    /\ pc' = "collected"
    /\ UNCHANGED <<fnIn, mainVars>>

NextCollect == Collect \/ WriteRow

SpecCollect == InitCollect /\ [][NextCollect]_vars

\* the positions among the first n rows whose text holds a digit once its
\* commas are gone (the rows parse_price does not turn down)
PricedRows(rows, n) ==
    {i \in 1..n : \E j \in 1..Len(rows[i]) : rows[i][j] \in Digits}

\* C5: the prices of a record are the parse_price values of the first
\* min(count, max_price_items) fragments that parse, in fetch order; fragments
\* that do not parse leave no placeholder, and there are at most
\* max_price_items prices.
C5_PricesAreParsedRows ==
    pc \in {"row", "collected"} =>
        LET rows == fnIn.rows
            n == IF Len(rows) <= fnIn.max_items THEN Len(rows) ELSE fnIn.max_items
            kept == PricedRows(rows, n)
            prices == fnOut[1].prices
            nth(k) == CHOOSE i \in kept : Cardinality({j \in kept : j < i}) = k - 1
        IN  /\ Len(prices) = Cardinality(kept)
            /\ Len(prices) <= fnIn.max_items
            /\ \A k \in 1..Len(prices) :
                   /\ prices[k] # None
                   /\ SameNumber(prices[k],
                                 NumeralValue(FirstNumber(WithoutCommas(rows[nth(k)]))))

\* C5 witness: the fragments "(yen)100 good", "junk", "(yen)200" gave [100, 200].
C5_Witness ==
    /\ pc = "row"
    /\ fnIn.rows = << <<Yen, "1", "0", "0", " ", "g", "o", "o", "d">>,
                      <<"j", "u", "n", "k">>, <<Yen, "2", "0", "0">> >>
    /\ fnIn.max_items = 3
    /\ fnOut[1].prices = << <<100, 1>>, <<200, 1>> >>

\* C8: min_price and avg_price are both None exactly when prices is empty, and
\* are then written as empty strings (and as numbers otherwise); for a
\* non-empty prices, min_price is its least element and avg_price is
\* sum(prices) / count(prices), so min_price <= avg_price <= greatest element.
C8_Aggregates ==
    pc \in {"row", "collected"} =>
        LET r == fnOut[1]
            ps == r.prices
            n == Len(ps)
            lo == min_price(r)
            avg == avg_price(r)
            \* sum of the prices over a common denominator
            den == LET RECURSIVE Prod(_)
                       Prod(i) == IF i > n THEN 1 ELSE ps[i][2] * Prod(i + 1)
                   IN  Prod(1)
            num == LET RECURSIVE Tot(_)
                       Tot(i) == IF i > n THEN 0
                                 ELSE ps[i][1] * (den \div ps[i][2]) + Tot(i + 1)
                   IN  Tot(1)
        IN  /\ (lo = None) <=> (ps = <<>>)
            /\ (avg = None) <=> (ps = <<>>)
            /\ ps # <<>> =>
                   /\ \E i \in 1..n : ps[i] = lo
                   /\ \A i \in 1..n : RatLeq(lo, ps[i])
                   /\ avg[1] * den * n = num * avg[2]
                   /\ RatLeq(lo, avg)
                   /\ \E i \in 1..n : RatLeq(avg, ps[i])
            /\ pc = "collected" =>
                   /\ (fnOut[2].min_price = <<>>) <=> (ps = <<>>)
                   /\ (fnOut[2].avg_price = <<>>) <=> (ps = <<>>)

\* C8 witness: prices [100, 200] have min 100 and mean 150, written "100.00"
\* and "150.00".
C8_Witness ==
    /\ pc = "collected"
    /\ fnOut[1].prices = << <<100, 1>>, <<200, 1>> >>
    /\ min_price(fnOut[1]) = <<100, 1>>
    /\ avg_price(fnOut[1]) = <<150, 1>>
    /\ fnOut[2].min_price = <<"1", "0", "0", ".", "0", "0">>
    /\ fnOut[2].avg_price = <<"1", "5", "0", ".", "0", "0">>
    /\ fnOut[2].prices = <<"1", "0", "0", ".", "0", "0", "|", "2", "0", "0", ".", "0", "0">>

\* C8 witness of the empty case: no price, both aggregates None, both cells empty.
C8_WitnessEmpty ==
    /\ pc = "collected"
    /\ fnOut[1].prices = <<>>
    /\ fnOut[2].min_price = <<>>

====
